---- MODULE Spec2Model ----
(***************************************************************************)
(* lazygrid.model_selection: cross-validation of a model against a store  *)
(* of fitted models (load_model / save_model), with seed-based or          *)
(* fold-index-based randomisation of the model.                            *)
(*                                                                         *)
(* Optional values are sets with at most one element ({} is None or a      *)
(* missing attribute).  A fitted step carries the provenance of its fit:   *)
(* the training partition, the random state in force and the fitted        *)
(* transformers its input went through.  A score is the pair (what the     *)
(* predicting model was fitted on, what it predicts on).                   *)
(***************************************************************************)
EXTENDS Integers, Sequences, FiniteSets, TLC

\* ---------------------------------------------------------------- bounds
MaxSeed == 1
MaxSplits == 2
MaxRuns == 2
MaxFailures == 1
NumProcs == 2
MaxStages == 3
MaxModels == 2
MaxCalls == 2

Procs == 1..NumProcs
Seeds == 0..MaxSeed

VARIABLES
    model,      \* the caller's model object
    store,      \* the database: cache key -> stored artifact
    tf_seed,    \* the process-wide tensorflow seed
    cv,         \* per caller: the frame of its cross_validation call
    hist,       \* what the returned calls returned, in order of return
    runs,       \* cross_validation calls started so far
    failures,   \* failures of the store and of fit so far
    fitlog,     \* cache key -> number of fits performed for it
    overlap,    \* TRUE once two calls have been in progress together
    probe,      \* the inputs and the results of a function applied on its own
    models,     \* the caller's list of models for compare_models
    cm          \* the frame of the caller's compare_models call

vars == <<model, store, tf_seed, cv, hist, runs, failures, fitlog, overlap, probe,
          models, cm>>

\* ------------------------------------------------------------ the models
Step(name, hasRS, tr, pr, fit) ==
    [name |-> name, has_random_state |-> hasRS, transform |-> tr,
     predict |-> pr, random_state |-> {}, fit |-> fit]

NewModel(kind, steps) ==
    [kind |-> kind, steps |-> steps, is_fitted |-> {}, signature |-> {}]

\* a fit done by the caller before the call, on data of the caller's
ExtFit == [tr |-> [x |-> "ext", kfold |-> {}, side |-> "full"], rs |-> {}, via |-> <<>>]

RandomForestClassifier ==
    NewModel("estimator", <<Step("RandomForestClassifier", TRUE, FALSE, TRUE, {})>>)
KNeighborsClassifier ==
    NewModel("estimator", <<Step("KNeighborsClassifier", FALSE, FALSE, TRUE, {})>>)
PipelineModel ==
    NewModel("pipeline", <<Step("SelectKBest", FALSE, TRUE, FALSE, {}),
                           Step("RandomForestClassifier", TRUE, FALSE, TRUE, {})>>)
FittedPipelineModel ==
    NewModel("pipeline", <<Step("SelectKBest", FALSE, TRUE, FALSE, {ExtFit}),
                           Step("RandomForestClassifier", TRUE, FALSE, TRUE, {ExtFit})>>)
SequentialModel ==
    NewModel("keras", <<Step("Dense", TRUE, FALSE, TRUE, {})>>)

CallerModels ==
    {RandomForestClassifier, KNeighborsClassifier, PipelineModel,
     FittedPipelineModel, SequentialModel}

NoModel == NewModel("none", <<>>)

\* ------------------------------------------------- copies and references
\* A heap has the caller's object in slot "model" and the fold's in slot
\* "learner"; a reference is the name of a slot.
Heap(m, l) == [model |-> m, learner |-> l]

\* the copy is not taken: the name is bound to the object itself
deepcopy_alias(h, r) == [ref |-> r, heap |-> h]

deepcopy(h, r) == [ref |-> "learner", heap |-> [h EXCEPT !.learner = h[r]]]

\* ------------------------------------------------------ _set_random_seed
reset_weights(o, v) ==
    [o EXCEPT !.steps = [i \in DOMAIN o.steps |->
        [o.steps[i] EXCEPT !.random_state = {v}, !.fit = {}]]]

\* random_state is set on every step, whether it has the parameter or not
set_params_random_state_all(o, v) ==
    [o EXCEPT !.steps = [i \in DOMAIN o.steps |->
        [o.steps[i] EXCEPT !.random_state = {v}]]]

set_params_random_state(o, v) ==
    [o EXCEPT !.steps = [i \in DOMAIN o.steps |->
        IF o.steps[i].has_random_state
        THEN [o.steps[i] EXCEPT !.random_state = {v}]
        ELSE o.steps[i]]]

hasattr_fit_predict(o) ==
    o.kind = "estimator" /\ Len(o.steps) = 1 /\ o.steps[1].predict

\* the two modes exchanged
_set_random_seed_swapped(h, r, tf, random_model, split_index, seed) ==
    LET v == IF random_model THEN seed ELSE split_index
    IN  CASE h[r].kind = "keras" ->
               [heap |-> [h EXCEPT ![r] = reset_weights(h[r], v)], tf |-> {v}]
          [] h[r].kind = "pipeline" ->
               [heap |-> [h EXCEPT ![r] = set_params_random_state(h[r], v)], tf |-> tf]
          [] hasattr_fit_predict(h[r]) ->
               [heap |-> [h EXCEPT ![r] = set_params_random_state(h[r], v)], tf |-> tf]
          [] OTHER -> [heap |-> h, tf |-> tf]

_set_random_seed(h, r, tf, random_model, split_index, seed) ==
    LET v == IF random_model THEN split_index ELSE seed
    IN  CASE h[r].kind = "keras" ->
               [heap |-> [h EXCEPT ![r] = reset_weights(h[r], v)], tf |-> {v}]
          [] h[r].kind = "pipeline" ->
               [heap |-> [h EXCEPT ![r] = set_params_random_state(h[r], v)], tf |-> tf]
          [] hasattr_fit_predict(h[r]) ->
               [heap |-> [h EXCEPT ![r] = set_params_random_state(h[r], v)], tf |-> tf]
          [] OTHER -> [heap |-> h, tf |-> tf]

\* --------------------------------------------------------- the database
\* What load_model and save_model are handed to identify an artifact.
Structure(o) ==
    [kind |-> o.kind,
     steps |-> [i \in DOMAIN o.steps |->
                  [name |-> o.steps[i].name, random_state |-> o.steps[i].random_state]]]

CacheKey(o, split_index, dataset_id, dataset_name, fit_params, db_name) ==
    [model |-> Structure(o), split |-> split_index, did |-> dataset_id,
     dname |-> dataset_name, fit_params |-> fit_params, db |-> db_name]

load_model(db, o, split_index, dataset_id, dataset_name, fit_params, db_name, ok) ==
    LET k == CacheKey(o, split_index, dataset_id, dataset_name, fit_params, db_name)
    IN  IF ok /\ k \in DOMAIN db THEN {db[k]} ELSE {}

save_model(db, o, split_index, dataset_id, dataset_name, fit_params, db_name, ok) ==
    LET k == CacheKey(o, split_index, dataset_id, dataset_name, fit_params, db_name)
    IN  IF ok
        THEN [db |-> [x \in DOMAIN db \cup {k} |-> IF x = k THEN o ELSE db[x]],
              signature |-> {k}]
        ELSE [db |-> db, signature |-> {}]

\* ---------------------------------------------------------- _get_learner
\* the learner is marked fitted whatever the lookup returned
_get_learner_marked(h, tf, db, a, split_index, ok) ==
    LET c1 == deepcopy(h, "model")
        s1 == _set_random_seed(c1.heap, c1.ref, tf, a.random_model, split_index, a.seed)
        found == load_model(db, s1.heap[c1.ref], split_index, a.dataset_id,
                            a.dataset_name, a.fit_params, a.db_name, ok)
        hit == found # {}
        c2 == deepcopy(s1.heap, "model")
        s2 == _set_random_seed(c2.heap, c2.ref, s1.tf, a.random_model, split_index, a.seed)
        r == IF hit THEN "learner" ELSE c2.ref
        h2 == IF hit THEN [s1.heap EXCEPT !.learner = CHOOSE o \in found : TRUE]
                     ELSE s2.heap
    IN  [heap |-> [h2 EXCEPT ![r].is_fitted = {TRUE}],
         ref |-> r,
         hit |-> hit,
         tf |-> IF hit THEN s1.tf ELSE s2.tf,
         looked |-> s1.heap[c1.ref]]

_get_learner(h, tf, db, a, split_index, ok) ==
    LET c1 == deepcopy(h, "model")
        s1 == _set_random_seed(c1.heap, c1.ref, tf, a.random_model, split_index, a.seed)
        found == load_model(db, s1.heap[c1.ref], split_index, a.dataset_id,
                            a.dataset_name, a.fit_params, a.db_name, ok)
        hit == found # {}
        c2 == deepcopy(s1.heap, "model")
        s2 == _set_random_seed(c2.heap, c2.ref, s1.tf, a.random_model, split_index, a.seed)
        r == IF hit THEN "learner" ELSE c2.ref
        h2 == IF hit THEN [s1.heap EXCEPT !.learner = CHOOSE o \in found : TRUE]
                     ELSE s2.heap
    IN  [heap |-> [h2 EXCEPT ![r].is_fitted = {hit}],
         ref |-> r,
         hit |-> hit,
         tf |-> IF hit THEN s1.tf ELSE s2.tf,
         looked |-> s1.heap[c1.ref]]

\* ------------------------------------------------------------------ _fit
\* every step is reported as not fitted
_is_fitted_never(step) == FALSE

_is_fitted(step) ==
    IF step.transform \/ step.predict THEN step.fit # {} ELSE FALSE

RECURSIVE FitSteps(_, _, _, _, _)
FitSteps(steps, i, via, part, calls) ==
    IF i > Len(steps) THEN [steps |-> steps, calls |-> calls]
    ELSE LET s == steps[i]
             refit == ~_is_fitted(s)
             s2 == IF refit
                   THEN [s EXCEPT !.fit = {[tr |-> part, rs |-> s.random_state, via |-> via]}]
                   ELSE s
             via2 == IF s.transform THEN Append(via, s2.fit) ELSE via
         IN  FitSteps([steps EXCEPT ![i] = s2], i + 1, via2, part,
                      calls + (IF refit THEN 1 ELSE 0))

\* a step is fitted on the features as they came in, not as the steps
\* before it transform them
RECURSIVE FitSteps_untransformed(_, _, _, _, _)
FitSteps_untransformed(steps, i, via, part, calls) ==
    IF i > Len(steps) THEN [steps |-> steps, calls |-> calls]
    ELSE LET s == steps[i]
             refit == ~_is_fitted(s)
             s2 == IF refit
                   THEN [s EXCEPT !.fit = {[tr |-> part, rs |-> s.random_state, via |-> via]}]
                   ELSE s
         IN  FitSteps_untransformed([steps EXCEPT ![i] = s2], i + 1, via, part,
                                    calls + (IF refit THEN 1 ELSE 0))

_fit_untransformed(o, part) ==
    CASE o.kind = "pipeline" ->
           LET f == FitSteps_untransformed(o.steps, 1, <<>>, part, 0)
           IN  [learner |-> [o EXCEPT !.steps = f.steps], calls |-> f.calls]
      [] o.kind \in {"estimator", "keras"} /\ o.steps[1].predict ->
           IF o.is_fitted # {TRUE}
           THEN [learner |-> [o EXCEPT !.steps[1].fit =
                                 {[tr |-> part, rs |-> o.steps[1].random_state, via |-> <<>>]}],
                 calls |-> 1]
           ELSE [learner |-> o, calls |-> 0]
      [] OTHER -> [learner |-> o, calls |-> 0]

\* a learner that has been fitted is marked fitted
_fit_marking(o, part) ==
    CASE o.kind = "pipeline" ->
           LET f == FitSteps(o.steps, 1, <<>>, part, 0)
           IN  [learner |-> [o EXCEPT !.steps = f.steps, !.is_fitted = {TRUE}],
                calls |-> f.calls]
      [] o.kind \in {"estimator", "keras"} /\ o.steps[1].predict ->
           IF o.is_fitted # {TRUE}
           THEN [learner |-> [o EXCEPT !.steps[1].fit =
                                 {[tr |-> part, rs |-> o.steps[1].random_state, via |-> <<>>]},
                                       !.is_fitted = {TRUE}],
                 calls |-> 1]
           ELSE [learner |-> o, calls |-> 0]
      [] OTHER -> [learner |-> o, calls |-> 0]

\* the is_fitted mark is not consulted
_fit_always(o, part) ==
    CASE o.kind = "pipeline" ->
           LET f == FitSteps(o.steps, 1, <<>>, part, 0)
           IN  [learner |-> [o EXCEPT !.steps = f.steps], calls |-> f.calls]
      [] o.kind \in {"estimator", "keras"} /\ o.steps[1].predict ->
           [learner |-> [o EXCEPT !.steps[1].fit =
                            {[tr |-> part, rs |-> o.steps[1].random_state, via |-> <<>>]}],
            calls |-> 1]
      [] OTHER -> [learner |-> o, calls |-> 0]

_fit(o, part) ==
    CASE o.kind = "pipeline" ->
           LET f == FitSteps(o.steps, 1, <<>>, part, 0)
           IN  [learner |-> [o EXCEPT !.steps = f.steps], calls |-> f.calls]
      [] o.kind \in {"estimator", "keras"} /\ o.steps[1].predict ->
           IF o.is_fitted # {TRUE}
           THEN [learner |-> [o EXCEPT !.steps[1].fit =
                                 {[tr |-> part, rs |-> o.steps[1].random_state, via |-> <<>>]}],
                 calls |-> 1]
           ELSE [learner |-> o, calls |-> 0]
      [] OTHER -> [learner |-> o, calls |-> 0]

\* ------------------------------------------------------ cross_validation
\* x_val / y_val as the caller passed them: "none" when one of them is
\* None, "list" when both are given and one is not an ndarray, "array"
\* when both are ndarrays.
ValKinds == {"none", "array", "list"}

Args ==
    {a \in [random_data : BOOLEAN, random_model : BOOLEAN, seed : Seeds,
            n_splits : 0..MaxSplits, val : ValKinds,
            db_name : {"database"}, dataset_id : {1},
            dataset_name : {"make-class"}, fit_params : {"{}"}] :
        \* StratifiedKFold wants at least two splits; x_val is only read
        \* when the data is not split
        /\ a.random_data => (a.n_splits >= 2 /\ a.val = "none")}

\* the fold's share of x is taken whether or not the data is to be split
TrainPart_fold(a, i) ==
    [x |-> "x", kfold |-> {[seed |-> a.seed, n |-> a.n_splits, fold |-> i]}, side |-> "train"]

TrainPart(a, i) ==
    IF a.random_data
    THEN [x |-> "x", kfold |-> {[seed |-> a.seed, n |-> a.n_splits, fold |-> i]}, side |-> "train"]
    ELSE [x |-> "x", kfold |-> {}, side |-> "full"]

ValPart(a, i) ==
    IF a.random_data
    THEN [x |-> "x", kfold |-> {[seed |-> a.seed, n |-> a.n_splits, fold |-> i]}, side |-> "val"]
    ELSE [x |-> "x_val", kfold |-> {}, side |-> "full"]

\* learner.predict(data) scored against the labels of data
Fits(o) == [i \in DOMAIN o.steps |-> o.steps[i].fit]
score_fun(o, part) == [by |-> Fits(o), on |-> part]

\* the check of the randomised model on fixed data is missing
PreconditionsHold_first_only(a) ==
    ~a.random_data => a.val # "none"

PreconditionsHold(a) ==
    /\ ~a.random_data => a.val # "none"
    /\ (a.random_model /\ ~a.random_data) => a.val = "array"

\* the key of fold i of a call with arguments a on model m
FoldKey(m, a, i) ==
    LET c == deepcopy(Heap(m, NoModel), "model")
        s == _set_random_seed(c.heap, c.ref, {}, a.random_model, i, a.seed)
    IN  CacheKey(s.heap[c.ref], i, a.dataset_id, a.dataset_name, a.fit_params, a.db_name)

\* the first fold is skipped
SplitRange_from_one(n_splits) == 1..(n_splits - 1)

\* range(0, n_splits)
SplitRange(n_splits) == 0..(n_splits - 1)

\* the train score is not kept
save_results_val_only(score, score_train, score_val) ==
    [score EXCEPT !.val_cv = Append(score.val_cv, score_val)]

\* score["train_cv"].append(score_train); score["val_cv"].append(score_val)
save_results(score, score_train, score_val) ==
    [score EXCEPT !.train_cv = Append(score.train_cv, score_train),
                  !.val_cv = Append(score.val_cv, score_val)]

NewScore == [train_blind |-> <<>>, test_blind |-> <<>>, train_cv |-> <<>>, val_cv |-> <<>>]

Idle == {"idle", "returned", "failed"}
Running == {"lookup", "fit", "score", "save"}

IdleFrame ==
    [pc |-> "idle", args |-> CHOOSE a \in Args : TRUE, split_index |-> 0,
     learner |-> NoModel, ref |-> "learner", hit |-> FALSE, looked |-> NoModel,
     score |-> NewScore, fitted_models |-> <<>>,
     fits |-> 0, hits |-> <<>>, scored |-> <<>>, saved |-> <<>>,
     model0 |-> NoModel, warm |-> {}, store0 |-> <<>>,
     load_failed |-> {}, save_failed |-> {},
     fit_failed |-> FALSE, before_fit |-> NoModel, trace |-> <<>>]

\* a step of the fold loop, with what it hands to the store
Event(op, f) ==
    [op |-> op, split_index |-> f.split_index, dataset_id |-> f.args.dataset_id,
     dataset_name |-> f.args.dataset_name, fit_params |-> f.args.fit_params,
     db_name |-> f.args.db_name]

\* the earlier calls whose artifacts the store holds for every fold of a
\* call with arguments a
Warm(a) ==
    {e \in DOMAIN hist :
        /\ hist[e].args = a
        /\ hist[e].model0 = model
        /\ \A i \in SplitRange(a.n_splits) :
              /\ FoldKey(model, a, i) \in DOMAIN store
              /\ store[FoldKey(model, a, i)].steps = hist[e].fitted_models[i + 1].steps}

Summary(f) ==
    [args |-> f.args, model0 |-> f.model0, score |-> f.score,
     fitted_models |-> f.fitted_models, fits |-> f.fits]

CrossValidation(p, a) ==
    /\ cv[p].pc \in Idle
    /\ runs' = runs + 1
    /\ overlap' = (overlap \/ \E q \in Procs \ {p} : cv[q].pc \in Running)
    /\ LET f == [IdleFrame EXCEPT !.args = a, !.model0 = model, !.store0 = store,
                                  !.warm = Warm(a)]
       IN  IF ~PreconditionsHold(a)
           THEN /\ cv' = [cv EXCEPT ![p] = [f EXCEPT !.pc = "failed"]]
                /\ hist' = hist
           ELSE IF SplitRange(a.n_splits) = {}
           THEN /\ cv' = [cv EXCEPT ![p] = [f EXCEPT !.pc = "returned"]]
                /\ hist' = Append(hist, Summary(f))
           ELSE /\ cv' = [cv EXCEPT ![p] =
                            [f EXCEPT !.pc = "lookup",
                                      !.split_index = CHOOSE i \in SplitRange(a.n_splits) :
                                          \A j \in SplitRange(a.n_splits) : i <= j]]
                /\ hist' = hist
    /\ UNCHANGED <<models, cm, model, store, tf_seed, failures, fitlog, probe>>

GetLearner(p, ok) ==
    /\ cv[p].pc = "lookup"
    /\ ~ok => failures < MaxFailures
    /\ failures' = IF ok THEN failures ELSE failures + 1
    /\ LET f == cv[p]
           g == _get_learner(Heap(model, f.learner), tf_seed, store, f.args, f.split_index, ok)
       IN  /\ model' = g.heap.model
           /\ tf_seed' = g.tf
           /\ cv' = [cv EXCEPT ![p] = [f EXCEPT !.pc = "fit", !.learner = g.heap.learner,
                                                !.ref = g.ref, !.hit = g.hit,
                                                !.looked = g.looked,
                                                !.before_fit = g.heap[g.ref],
                                                !.trace = Append(f.trace, Event("load_model", f)),
                                                !.hits = Append(f.hits, g.hit),
                                                !.load_failed = IF ok THEN f.load_failed
                                                    ELSE f.load_failed \cup {f.split_index}]]
    /\ UNCHANGED <<models, cm, store, hist, runs, fitlog, overlap, probe>>

Bump(log, k, n) ==
    IF n = 0 THEN log
    ELSE [x \in DOMAIN log \cup {k} |-> IF x = k
                                        THEN (IF k \in DOMAIN log THEN log[k] ELSE 0) + n
                                        ELSE log[x]]

\* a fit that raises is answered with the learner as it was
fit_learner_swallowed(f, learner, calls, ok) ==
    [f EXCEPT !.pc = "score",
              !.learner = IF ok THEN learner ELSE f.learner,
              !.fits = f.fits + (IF ok THEN calls ELSE 0),
              !.fit_failed = ~ok,
              !.trace = Append(f.trace, Event("_fit", f))]

\* learner = _fit(learner, x_train, y_train, fit_params): nothing catches
\* what fit raises
fit_learner(f, learner, calls, ok) ==
    IF ok
    THEN [f EXCEPT !.pc = "score", !.learner = learner, !.fits = f.fits + calls,
                   !.trace = Append(f.trace, Event("_fit", f))]
    ELSE [f EXCEPT !.pc = "failed", !.fit_failed = TRUE,
                   !.trace = Append(f.trace, Event("_fit", f))]

\* ok is FALSE when a fit of the learner or of one of its steps raises
Fit(p, ok) ==
    /\ cv[p].pc = "fit"
    /\ LET f == cv[p]
           h == Heap(model, f.learner)
           r == _fit(h[f.ref], TrainPart(f.args, f.split_index))
           h2 == [h EXCEPT ![f.ref] = r.learner]
           k == CacheKey(f.looked, f.split_index, f.args.dataset_id, f.args.dataset_name,
                         f.args.fit_params, f.args.db_name)
       IN  /\ ~ok => (r.calls > 0 /\ failures < MaxFailures)
           /\ failures' = IF ok THEN failures ELSE failures + 1
           /\ model' = IF ok THEN h2.model ELSE model
           /\ fitlog' = Bump(fitlog, k, IF ok /\ r.calls > 0 THEN 1 ELSE 0)
           /\ cv' = [cv EXCEPT ![p] = fit_learner(f, h2.learner, r.calls, ok)]
    /\ UNCHANGED <<models, cm, store, tf_seed, hist, runs, overlap, probe>>

Score(p) ==
    /\ cv[p].pc = "score"
    /\ LET f == cv[p]
           l == Heap(model, f.learner)[f.ref]
           score_train == score_fun(l, TrainPart(f.args, f.split_index))
           score_val == score_fun(l, ValPart(f.args, f.split_index))
       IN  \* predict(x_val) raises when no validation data reached this point
           IF ~f.args.random_data /\ f.args.val = "none"
           THEN cv' = [cv EXCEPT ![p] = [f EXCEPT !.pc = "failed"]]
           ELSE cv' = [cv EXCEPT ![p] =
                        [f EXCEPT !.pc = "save",
                                  !.score = save_results(f.score, score_train, score_val),
                                  !.trace = Append(f.trace, Event("score", f)),
                                  !.scored = Append(f.scored, f.split_index)]]
    /\ UNCHANGED <<models, cm, model, store, tf_seed, hist, runs, failures, fitlog, overlap, probe>>

\* a learner that came from the store is not saved again
save_trained_model_misses_only(db, f, o, ok) ==
    LET s == save_model(db, o, f.split_index, f.args.dataset_id,
                        f.args.dataset_name, f.args.fit_params, f.args.db_name, ok)
    IN  IF f.hit
        THEN [db |-> db, signature |-> o.signature, trace |-> <<Event("append", f)>>]
        ELSE [db |-> s.db, signature |-> s.signature,
              trace |-> <<Event("save_model", f), Event("append", f)>>]

\* learner.signature = save_model(learner, split_index, dataset_id,
\* dataset_name, fit_params, db_name); fitted_models.append(...)
save_trained_model(db, f, o, ok) ==
    LET s == save_model(db, o, f.split_index, f.args.dataset_id,
                        f.args.dataset_name, f.args.fit_params, f.args.db_name, ok)
    IN  [db |-> s.db, signature |-> s.signature,
         trace |-> <<Event("save_model", f), Event("append", f)>>]

Save(p, ok) ==
    /\ cv[p].pc = "save"
    /\ ~ok => failures < MaxFailures
    /\ failures' = IF ok THEN failures ELSE failures + 1
    /\ LET f == cv[p]
           h == Heap(model, f.learner)
           s == save_trained_model(store, f, h[f.ref], ok)
           h2 == [h EXCEPT ![f.ref].signature = s.signature]
           last == f.split_index + 1 \notin SplitRange(f.args.n_splits)
           f2 == [f EXCEPT !.pc = IF last THEN "returned" ELSE "lookup",
                           !.learner = h2.learner,
                           !.fitted_models = Append(f.fitted_models, h2[f.ref]),
                           !.saved = Append(f.saved, f.split_index),
                           !.trace = f.trace \o s.trace,
                           !.split_index = IF last THEN f.split_index ELSE f.split_index + 1,
                           !.save_failed = IF ok THEN f.save_failed
                                           ELSE f.save_failed \cup {f.split_index}]
       IN  /\ store' = s.db
           /\ model' = h2.model
           /\ cv' = [cv EXCEPT ![p] = f2]
           /\ hist' = IF last THEN Append(hist, Summary(f2)) ELSE hist
    /\ UNCHANGED <<models, cm, tf_seed, runs, fitlog, overlap, probe>>

\* -------------------------------------------------------- compare_models
IdleCall ==
    [pc |-> "idle", args |-> <<>>, calls |-> 0, index |-> 0, called |-> 0,
     dataset_id |-> {}, dataset_name |-> {}, db_name |-> {},
     train_cv |-> <<>>, val_cv |-> <<>>, results |-> <<>>,
     dropped |-> <<>>, store0 |-> <<>>, selection |-> {}, report |-> <<>>, csv |-> {},
     models0 |-> <<>>, runs0 |-> 0]

\* drop_db(db_name): the store of that name is emptied
drop_db(db, db_name) ==
    [k \in {x \in DOMAIN db : x.db # db_name} |-> db[k]]

CmpModels == {RandomForestClassifier, FittedPipelineModel}

ModelLists == UNION {[1..n -> CmpModels] : n \in 1..MaxModels}

\* p-values and alpha in hundredths
PValues == {1, 5, 50, 100}

\* the store is dropped for no dataset_id only, not for dataset_id 0
dataset_defaults_none_only(a) ==
    IF a.dataset_id = {}
    THEN [dataset_id |-> 1, db_name |-> "new-db", drop |-> <<"new-db">>]
    ELSE [dataset_id |-> CHOOSE d \in a.dataset_id : TRUE, db_name |-> a.db_name,
          drop |-> <<>>]

\* if not dataset_id: dataset_id = 1; db_name = "new-db"; drop_db(db_name)
dataset_defaults(a) ==
    IF a.dataset_id = {} \/ a.dataset_id = {0}
    THEN [dataset_id |-> 1, db_name |-> "new-db", drop |-> <<"new-db">>]
    ELSE [dataset_id |-> CHOOSE d \in a.dataset_id : TRUE, db_name |-> a.db_name,
          drop |-> <<>>]

\* the signature is that of the first fold
set_signature_first_fold(m, fitted_models) ==
    [m EXCEPT !.signature = fitted_models[1].signature]

\* model.signature = fitted_models[-1].signature
set_signature(m, fitted_models) ==
    [m EXCEPT !.signature = fitted_models[Len(fitted_models)].signature]

\* dataset_id and dataset_name are None ({}) unless the caller gives them;
\* x_val and y_val are arrays when the data is not split
CmpArgs ==
    {a \in [random_data : BOOLEAN, random_model : BOOLEAN, seed : {MaxSeed},
            n_splits : 1..MaxSplits, val : {"none", "array"},
            test : {"mannwhitneyu", "ttest_ind"}, alpha : {5},
            db_name : {"templates", "new-db"}, dataset_id : {{}, {0}, {1}},
            dataset_name : {{}}] :
        /\ a.random_data => (a.n_splits >= 2 /\ a.val = "none")
        /\ ~a.random_data => a.val = "array"}

\* the arguments compare_models hands to cross_validation
CvArgs(c) ==
    [random_data |-> c.args.random_data, random_model |-> c.args.random_model,
     seed |-> c.args.seed, n_splits |-> c.args.n_splits, val |-> c.args.val,
     db_name |-> c.db_name, dataset_id |-> c.dataset_id,
     dataset_name |-> c.dataset_name, fit_params |-> "{}"]

\* what the statistics of the validation scores may come to: the index of
\* the best mean and a p-value for every model against it; the best has
\* the largest p-value, and so has every model with the scores of the best,
\* of which the best is the first
Statistics(val_cv) ==
    {st \in [best : 0..(Len(val_cv) - 1), pvalues : [DOMAIN val_cv -> PValues]] :
        /\ st.pvalues[st.best + 1] = 100
        /\ \A i \in DOMAIN val_cv :
              val_cv[i] = val_cv[st.best + 1] => (st.pvalues[i] = 100 /\ i >= st.best + 1)}

find_best_solution(val_cv, test, alpha, st) ==
    [best_sol |-> st.best,
     best_solutions |-> {i \in 0..(Len(val_cv) - 1) : st.pvalues[i + 1] >= alpha},
     pvalues |-> st.pvalues,
     test |-> test]

\* no interval ({}) for fewer than two scores
confidence_interval_mean_t(scores) ==
    IF Len(scores) < 2 THEN {} ELSE {[of |-> scores]}

\* index stays 0: every row reads the first model's entries
_compute_result_summary_first_row(ms, a, dataset_id, dataset_name, train_cv, val_cv, pvalues, best_solutions) ==
    IF \E i \in DOMAIN ms : confidence_interval_mean_t(val_cv[1]) = {}
    THEN {}
    ELSE {[i \in DOMAIN ms |->
            [dataset_name |-> dataset_name, dataset_id |-> dataset_id,
             model |-> ms[i].signature,
             train_cv |-> train_cv[1], val_cv |-> val_cv[1],
             mean |-> [of |-> val_cv[1]],
             ci |-> confidence_interval_mean_t(val_cv[1]),
             separable |-> ~(0 \in best_solutions),
             pvalue |-> pvalues[1],
             test |-> a.test, alpha |-> a.alpha,
             random_data |-> a.random_data, random_model |-> a.random_model,
             seed |-> a.seed, n_splits |-> a.n_splits]]}

\* the flag is set for the indices in best_solutions
_compute_result_summary_inverted(ms, a, dataset_id, dataset_name, train_cv, val_cv, pvalues, best_solutions) ==
    IF \E i \in DOMAIN ms : confidence_interval_mean_t(val_cv[i]) = {}
    THEN {}
    ELSE {[i \in DOMAIN ms |->
            [dataset_name |-> dataset_name, dataset_id |-> dataset_id,
             model |-> ms[i].signature,
             train_cv |-> train_cv[i], val_cv |-> val_cv[i],
             mean |-> [of |-> val_cv[i]],
             ci |-> confidence_interval_mean_t(val_cv[i]),
             separable |-> (i - 1) \in best_solutions,
             pvalue |-> pvalues[i],
             test |-> a.test, alpha |-> a.alpha,
             random_data |-> a.random_data, random_model |-> a.random_model,
             seed |-> a.seed, n_splits |-> a.n_splits]]}

\* the rows of the report, or {} when an interval cannot be computed
_compute_result_summary(ms, a, dataset_id, dataset_name, train_cv, val_cv, pvalues, best_solutions) ==
    IF \E i \in DOMAIN ms : confidence_interval_mean_t(val_cv[i]) = {}
    THEN {}
    ELSE {[i \in DOMAIN ms |->
            [dataset_name |-> dataset_name, dataset_id |-> dataset_id,
             model |-> ms[i].signature,
             train_cv |-> train_cv[i], val_cv |-> val_cv[i],
             mean |-> [of |-> val_cv[i]],
             ci |-> confidence_interval_mean_t(val_cv[i]),
             separable |-> ~((i - 1) \in best_solutions),
             pvalue |-> pvalues[i],
             test |-> a.test, alpha |-> a.alpha,
             random_data |-> a.random_data, random_model |-> a.random_model,
             seed |-> a.seed, n_splits |-> a.n_splits]]}

\* a later call repeats the experiment of the one before it; dataset_id and
\* db_name are the caller's choice in every call
SameExperiment(a, b) ==
    [a EXCEPT !.dataset_id = {}, !.db_name = {}] = [b EXCEPT !.dataset_id = {}, !.db_name = {}]

CompareModels(a) ==
    /\ cm.pc \in Idle
    /\ cm.calls < MaxCalls
    /\ cm.calls > 0 => SameExperiment(a, cm.args)
    /\ LET dd == dataset_defaults(a)
           c == [IdleCall EXCEPT
                    !.args = a, !.calls = cm.calls + 1, !.store0 = store,
                    !.models0 = models, !.runs0 = runs,
                    !.dataset_id = dd.dataset_id,
                    !.db_name = dd.db_name,
                    !.dropped = dd.drop,
                    !.dataset_name = IF a.dataset_name = {} THEN "dataset"
                                     ELSE CHOOSE d \in a.dataset_name : TRUE,
                    !.called = runs]
       IN  /\ store' = IF dd.drop # <<>> THEN drop_db(store, dd.drop[1]) ELSE store
           /\ IF models = <<>>
              THEN /\ cm' = [c EXCEPT !.pc = "select"]
                   /\ model' = model
              ELSE /\ cm' = [c EXCEPT !.pc = "cv", !.index = 1]
                   /\ model' = models[1]
    /\ UNCHANGED <<models, tf_seed, cv, hist, runs, failures, fitlog, overlap, probe>>

\* the call of cross_validation on the model of the loop
CmCrossValidation ==
    /\ cm.pc = "cv"
    /\ runs = cm.called
    /\ CrossValidation(1, CvArgs(cm))

\* model.signature = fitted_models[-1].signature; the scores are appended
CmCollect ==
    /\ cm.pc = "cv"
    /\ runs = cm.called + 1
    /\ cv[1].pc = "returned"
    /\ LET f == cv[1]
           more == cm.index < Len(models)
       IN  IF f.fitted_models = <<>>
           THEN /\ cm' = [cm EXCEPT !.pc = "failed"]
                /\ UNCHANGED <<model, models>>
           ELSE LET m == set_signature(model, f.fitted_models)
                    ms == [models EXCEPT ![cm.index] = m]
                IN  /\ models' = ms
                    /\ model' = IF more THEN ms[cm.index + 1] ELSE m
                    /\ cm' = [cm EXCEPT
                                !.pc = IF more THEN "cv" ELSE "select",
                                !.index = IF more THEN cm.index + 1 ELSE cm.index,
                                !.called = runs,
                                !.train_cv = Append(cm.train_cv, f.score.train_cv),
                                !.val_cv = Append(cm.val_cv, f.score.val_cv),
                                !.results = Append(cm.results, Summary(f))]
    /\ UNCHANGED <<store, tf_seed, cv, hist, runs, failures, fitlog, overlap, probe>>

\* what cross_validation raises leaves compare_models
CmRaise ==
    /\ cm.pc = "cv"
    /\ runs = cm.called + 1
    /\ cv[1].pc = "failed"
    /\ cm' = [cm EXCEPT !.pc = "failed"]
    /\ UNCHANGED <<model, models, store, tf_seed, cv, hist, runs, failures, fitlog,
                   overlap, probe>>

\* find_best_solution, _compute_result_summary, results.to_csv
CmSummary(st) ==
    /\ cm.pc = "select"
    /\ LET b == find_best_solution(cm.val_cv, "mannwhitneyu", cm.args.alpha, st)
           rows == _compute_result_summary(models, cm.args, cm.dataset_id, cm.dataset_name,
                                           cm.train_cv, cm.val_cv, b.pvalues,
                                           b.best_solutions)
       IN  IF rows = {}
           THEN cm' = [cm EXCEPT !.pc = "failed", !.selection = {b}]
           ELSE cm' = [cm EXCEPT !.pc = "returned", !.selection = {b},
                                 !.report = CHOOSE r \in rows : TRUE,
                                 !.csv = rows]
    /\ UNCHANGED <<model, models, store, tf_seed, cv, hist, runs, failures, fitlog,
                   overlap, probe>>

\* ------------------------------------------------------ specifications
NoProbe == [a |-> <<>>, b |-> <<>>, ka |-> {}, kb |-> {}]

Init ==
    /\ model \in CallerModels
    /\ store = <<>>
    /\ tf_seed = {}
    /\ cv = [p \in Procs |-> IdleFrame]
    /\ hist = <<>>
    /\ runs = 0
    /\ failures = 0
    /\ fitlog = <<>>
    /\ overlap = FALSE
    /\ models = <<>>
    /\ cm = IdleCall
    /\ probe = NoProbe

\* the reference execution: one caller, one call after the other
Next ==
    \/ \E a \in Args : runs < MaxRuns /\ CrossValidation(1, a)
    \/ \E ok \in BOOLEAN : GetLearner(1, ok)
    \/ Fit(1, TRUE)
    \/ Score(1)
    \/ \E ok \in BOOLEAN : Save(1, ok)

Spec == Init /\ [][Next]_vars

\* a caller of compare_models; the store answers, a fit may raise
InitCmp ==
    /\ models \in ModelLists
    /\ model = models[1]
    /\ store = <<>>
    /\ tf_seed = {}
    /\ cv = [p \in Procs |-> IdleFrame]
    /\ hist = <<>>
    /\ runs = 0
    /\ failures = 0
    /\ fitlog = <<>>
    /\ overlap = FALSE
    /\ probe = NoProbe
    /\ cm = IdleCall

NextCmp ==
    \/ \E a \in CmpArgs : CompareModels(a)
    \/ CmCrossValidation
    \/ GetLearner(1, TRUE)
    \/ \E ok \in BOOLEAN : Fit(1, ok)
    \/ Score(1)
    \/ Save(1, TRUE)
    \/ CmCollect
    \/ CmRaise
    \/ \E st \in Statistics(cm.val_cv) : CmSummary(st)

SpecCmp == InitCmp /\ [][NextCmp]_vars

\* callers that may run their calls at the same time against one store
\* that answers every request; the calls pass their preconditions and
\* take one fold on fixed data or two on split data
ConcArgs ==
    {a \in Args : /\ PreconditionsHold(a)
                  /\ a.n_splits = (IF a.random_data THEN 2 ELSE 1)
                  /\ a.val # "list"}

NextConc ==
    \E p \in Procs :
        \/ \E a \in ConcArgs : runs < MaxRuns /\ CrossValidation(p, a)
        \/ GetLearner(p, TRUE)
        \/ Fit(p, TRUE)
        \/ Score(p)
        \/ Save(p, TRUE)

SpecConc == Init /\ [][NextConc]_vars

\* the cache key as a function of what a fold is run with
KeyInputs ==
    [model : CallerModels, random_model : BOOLEAN, split_index : SplitRange(MaxSplits),
     seed : Seeds, dataset_id : {1, 2}, dataset_name : {"make-class", "dataset"},
     fit_params : {"{}", "{epochs: 5}"}, db_name : {"database"}]

KeyFields(x) ==
    <<[kind |-> x.model.kind, steps |-> [i \in DOMAIN x.model.steps |-> x.model.steps[i].name]],
      x.random_model, x.split_index, x.seed, x.dataset_id, x.dataset_name, x.fit_params>>

Differing(x, y) == {i \in 1..7 : KeyFields(x)[i] # KeyFields(y)[i]}

InitKey ==
    /\ model \in CallerModels
    /\ store = <<>>
    /\ tf_seed = {}
    /\ cv = [p \in Procs |-> IdleFrame]
    /\ hist = <<>>
    /\ runs = 0
    /\ failures = 0
    /\ fitlog = <<>>
    /\ overlap = FALSE
    /\ models = <<>>
    /\ cm = IdleCall
    /\ \E x \in KeyInputs :
          /\ x.model = model
          /\ probe = [a |-> x, b |-> x, ka |-> {}, kb |-> {}]

\* a second fold, like the first but for at most one field
Vary(y) ==
    /\ probe.ka = {}
    /\ probe.b = probe.a
    /\ Cardinality(Differing(probe.a, y)) <= 1
    /\ probe' = [probe EXCEPT !.b = y]
    /\ UNCHANGED <<models, cm, model, store, tf_seed, cv, hist, runs, failures, fitlog, overlap>>

Fingerprint ==
    /\ probe.ka = {}
    /\ probe' = [probe EXCEPT
                    !.ka = {FoldKey(probe.a.model, probe.a, probe.a.split_index)},
                    !.kb = {FoldKey(probe.b.model, probe.b, probe.b.split_index)}]
    /\ UNCHANGED <<models, cm, model, store, tf_seed, cv, hist, runs, failures, fitlog, overlap>>

NextKey == (\E y \in KeyInputs : Vary(y)) \/ Fingerprint

SpecKey == InitKey /\ [][NextKey]_vars

\* ---------------------------------------------------------------- claims
Range(q) == {q[i] : i \in DOMAIN q}
Learner(p) == Heap(model, cv[p].learner)[cv[p].ref]
SeedOf(a, i) == IF a.random_model THEN i ELSE a.seed
Seeded(o, v) ==
    \A i \in DOMAIN o.steps :
        (o.steps[i].has_random_state \/ o.kind = "keras") => o.steps[i].random_state = {v}
RandomStates(o) == UNION {o.steps[i].random_state : i \in DOMAIN o.steps}

\* C1: a call that finds in the store, for every one of its folds, the
\* artifact an earlier call with the same model and arguments returned,
\* and whose lookups all reach the store, fits nothing and returns the
\* train and validation scores the earlier call returned.
C1_WarmRunFitsNothing ==
    \A p \in Procs :
        (cv[p].pc = "returned" /\ cv[p].load_failed = {}) =>
            \A e \in cv[p].warm :
                /\ cv[p].fits = 0
                /\ cv[p].score.train_cv = hist[e].score.train_cv
                /\ cv[p].score.val_cv = hist[e].score.val_cv

C1_Witness ==
    /\ cv[1].pc = "returned"
    /\ cv[1].load_failed = {}
    /\ cv[1].args.n_splits >= 2
    /\ \E e \in cv[1].warm : hist[e].fits > 0

C5_CallerModelUntouched ==
    \A p \in Procs :
        cv[p].pc \in Running \cup {"returned", "failed"} => model = cv[p].model0

C5_Witness ==
    /\ cv[1].pc = "returned"
    /\ TRUE \in Range(cv[1].hits)
    /\ \E e \in DOMAIN hist : hist[e].fits > 0
    /\ RandomStates(cv[1].fitted_models[1]) # {}

C8_FailsBeforeAnyWork ==
    \A p \in Procs :
        LET f == cv[p]
            a == f.args
        IN  (/\ f.pc # "idle"
             /\ \/ ~a.random_data /\ a.val = "none"
                \/ a.random_model /\ ~a.random_data /\ a.val # "array") =>
                /\ f.pc = "failed"
                /\ f.hits = <<>>
                /\ f.fits = 0
                /\ f.saved = <<>>
                /\ store = f.store0

C8_Witness ==
    /\ cv[1].pc = "failed"
    /\ cv[1].args.val = "list"
    /\ store # <<>>

\* what fitting a fresh seeded copy of m in fold i of a call with arguments
\* a leaves in the steps
FreshFits(m, a, i) ==
    LET c == deepcopy(Heap(m, NoModel), "model")
        s == _set_random_seed(c.heap, c.ref, {}, a.random_model, i, a.seed)
        o == [s.heap[c.ref] EXCEPT !.is_fitted = {FALSE}]
    IN  Fits(_fit(o, TrainPart(a, i)).learner)

\* C2: two folds with the same model structure, random_model, fold index,
\* seed, dataset id, dataset name and fit parameters have the same cache
\* key, and two folds that differ in exactly one of these have different
\* cache keys.
C2_KeySeparatesFields ==
    probe.ka # {} =>
        /\ Differing(probe.a, probe.b) = {} => probe.ka = probe.kb
        /\ Cardinality(Differing(probe.a, probe.b)) = 1 => probe.ka # probe.kb

\* C3: whenever a fold's lookup hits, the artifact it returns was fitted
\* on the training partition and with the random state a fresh fit for
\* this fold would use.
C3_HitEqualsFreshFit ==
    \A p \in Procs :
        (cv[p].pc = "fit" /\ cv[p].hit) =>
            /\ Fits(Learner(p)) = FreshFits(model, cv[p].args, cv[p].split_index)
            /\ Seeded(Learner(p), SeedOf(cv[p].args, cv[p].split_index))

\* C7 as claimed: of calls that overlap in time, with the store answering
\* every request, no cache key has its model fitted more than once.
C7_OneFitPerKeyConcurrent ==
    (overlap /\ failures = 0) => \A k \in DOMAIN fitlog : fitlog[k] <= 1

\* C7 as amended: of calls made one after the other, with the store
\* answering every request, no cache key has its model fitted more than
\* once; a later fold with the same key uses the stored artifact.
C7_OneFitPerKeySequential ==
    (~overlap /\ failures = 0) => \A k \in DOMAIN fitlog : fitlog[k] <= 1

C7_Witness ==
    /\ ~overlap
    /\ failures = 0
    /\ cv[1].pc = "returned"
    /\ cv[2].pc = "returned"
    /\ cv[1].fits > 0
    /\ cv[2].hits # <<>>
    /\ \A i \in DOMAIN cv[2].hits : cv[2].hits[i]
    /\ fitlog # <<>>

C10_SaveFailureKeepsScores ==
    \A p \in Procs :
        LET f == cv[p]
        IN  /\ (f.save_failed # {} /\ ~f.fit_failed) => f.pc # "failed"
            /\ (f.pc = "returned" /\ f.save_failed # {}) =>
                  \A i \in f.save_failed :
                      /\ Len(f.score.train_cv) > i
                      /\ Len(f.score.val_cv) > i
                      /\ f.score.train_cv[i + 1] =
                            [by |-> Fits(f.fitted_models[i + 1]), on |-> TrainPart(f.args, i)]
                      /\ f.score.val_cv[i + 1] =
                            [by |-> Fits(f.fitted_models[i + 1]), on |-> ValPart(f.args, i)]

C10_Witness ==
    /\ cv[1].pc = "returned"
    /\ cv[1].save_failed = {0}
    /\ cv[1].args.n_splits >= 2

\* what a call with arguments a on model m returns when every fold misses
ColdScore(m, a) ==
    [train_cv |-> [j \in 1..a.n_splits |->
                      [by |-> FreshFits(m, a, j - 1), on |-> TrainPart(a, j - 1)]],
     val_cv |-> [j \in 1..a.n_splits |->
                      [by |-> FreshFits(m, a, j - 1), on |-> ValPart(a, j - 1)]]]

\* C13: a call with random_model = False returns the train and validation
\* scores that the same call returns from an empty store, whatever the
\* store held when it started; so two such calls with the same arguments
\* return the same scores.
C13_SameScoresFromAnyStore ==
    \A p \in Procs :
        LET f == cv[p]
        IN  (f.pc = "returned" /\ ~f.args.random_model) =>
                /\ f.score.train_cv = ColdScore(f.model0, f.args).train_cv
                /\ f.score.val_cv = ColdScore(f.model0, f.args).val_cv

\* C18: in every fold, after _fit: on a hit the learner is as the lookup
\* returned it, nothing was fitted; on a miss every step of the learner is
\* fitted on the fold's training partition with the fold's random state,
\* whatever the caller's model had been fitted on.
C18_FittedIffMissed ==
    \A p \in Procs :
        LET f == cv[p]
            l == Learner(p)
        IN  f.pc = "score" =>
                /\ f.hit => l = f.before_fit
                /\ ~f.hit =>
                      \A i \in DOMAIN l.steps :
                          \A x \in l.steps[i].fit :
                              /\ x.tr = TrainPart(f.args, f.split_index)
                              /\ x.rs = l.steps[i].random_state
                /\ ~f.hit => \A i \in DOMAIN l.steps : l.steps[i].fit # {}

\* the steps of one fold, in the order of the loop body
FoldOps == <<"load_model", "_fit", "score", "save_model", "append">>

\* C19: the steps of a call are, fold after fold from 0 on, load_model,
\* _fit, score, save_model, append, each with the fold's split_index and
\* the call's dataset_id, dataset_name, fit_params and db_name; a returned
\* call has made these five steps exactly once for each fold, on hits and
\* on misses.
C19_FoldStepsInOrder ==
    \A p \in Procs :
        LET f == cv[p]
            t == f.trace
        IN  /\ \A j \in DOMAIN t :
                  t[j] = Event(FoldOps[((j - 1) % 5) + 1],
                               [f EXCEPT !.split_index = (j - 1) \div 5])
            /\ f.pc = "returned" => Len(t) = 5 * Cardinality(SplitRange(f.args.n_splits))
            /\ f.pc \in Running =>
                  Len(t) = 5 * f.split_index +
                           (CASE f.pc = "lookup" -> 0 [] f.pc = "fit" -> 1
                              [] f.pc = "score" -> 2 [] f.pc = "save" -> 3)

C19_Witness ==
    /\ cv[1].pc = "returned"
    /\ cv[1].args.n_splits = 2
    /\ Len(cv[1].trace) = 10
    /\ \E j \in DOMAIN cv[1].hits : cv[1].hits[j]
    /\ \E j \in DOMAIN cv[1].hits : ~cv[1].hits[j]

\* ------------------------------------- _set_random_seed as a function
\* the models a caller may hand over, as built and as seeded before
SeedModels ==
    CallerModels \cup {set_params_random_state(m, MaxSeed) : m \in CallerModels}

SeedInputs ==
    [o : SeedModels, random_model : BOOLEAN, split_index : SplitRange(MaxSplits),
     seed : Seeds]

InitSeed ==
    /\ store = <<>>
    /\ tf_seed = {}
    /\ cv = [p \in Procs |-> IdleFrame]
    /\ hist = <<>>
    /\ runs = 0
    /\ failures = 0
    /\ fitlog = <<>>
    /\ overlap = FALSE
    /\ models = <<>>
    /\ cm = IdleCall
    /\ \E x \in SeedInputs :
          /\ model = x.o
          /\ probe = [x |-> x, once |-> {}, twice |-> {}]

SetSeed ==
    /\ probe.once = {}
    /\ probe' = [probe EXCEPT !.once =
          {_set_random_seed(Heap(probe.x.o, NoModel), "model", tf_seed,
                            probe.x.random_model, probe.x.split_index, probe.x.seed)}]
    /\ UNCHANGED <<models, cm, model, store, tf_seed, cv, hist, runs, failures, fitlog, overlap>>

SetSeedAgain ==
    /\ probe.once # {}
    /\ probe.twice = {}
    /\ probe' = [probe EXCEPT !.twice =
          {_set_random_seed(r.heap, "model", r.tf, probe.x.random_model,
                            probe.x.split_index, probe.x.seed) : r \in probe.once}]
    /\ UNCHANGED <<models, cm, model, store, tf_seed, cv, hist, runs, failures, fitlog, overlap>>

NextSeed == SetSeed \/ SetSeedAgain

SpecSeed == InitSeed /\ [][NextSeed]_vars

\* the parameters of a model: what its steps are and are seeded with
Configuration(o) ==
    [kind |-> o.kind,
     steps |-> [i \in DOMAIN o.steps |->
                  [name |-> o.steps[i].name, random_state |-> o.steps[i].random_state]]]

\* C17: _set_random_seed applied twice with the same random_model,
\* split_index and seed leaves the model and the process-wide seed as one
\* application leaves them; a model none of whose steps has a random_state
\* parameter comes back with its configuration as it was.
C17_SetSeedIdempotent ==
    /\ probe.twice # {} => probe.twice = probe.once
    /\ \A r \in probe.once :
          (probe.x.o.kind # "keras" /\
           \A i \in DOMAIN probe.x.o.steps : ~probe.x.o.steps[i].has_random_state) =>
              /\ Configuration(r.heap.model) = Configuration(probe.x.o)
              /\ r.heap.model = probe.x.o

C17_Witness ==
    /\ probe.twice # {}
    /\ \E r \in probe.twice : r.heap.model # probe.x.o

\* ------------------------------------------- _fit of a Pipeline as a function
PipelineSteps ==
    {Step("SelectKBest", FALSE, TRUE, FALSE, fit) : fit \in {{}, {ExtFit}}}
    \cup {Step("RandomForestClassifier", TRUE, FALSE, TRUE, fit) : fit \in {{}, {ExtFit}}}

Pipelines ==
    UNION {[1..n -> PipelineSteps] : n \in 1..MaxStages}

InitFit ==
    /\ store = <<>>
    /\ tf_seed = {}
    /\ cv = [p \in Procs |-> IdleFrame]
    /\ hist = <<>>
    /\ runs = 0
    /\ failures = 0
    /\ fitlog = <<>>
    /\ overlap = FALSE
    /\ models = <<>>
    /\ cm = IdleCall
    /\ \E steps \in Pipelines, random_data \in BOOLEAN :
          /\ model = NewModel("pipeline", steps)
          /\ probe = [o |-> model,
                      part |-> TrainPart([random_data |-> random_data, seed |-> 0,
                                          n_splits |-> MaxSplits], 0),
                      out |-> {}]

FitPipeline ==
    /\ probe.out = {}
    /\ probe' = [probe EXCEPT !.out = {_fit(probe.o, probe.part)}]
    /\ UNCHANGED <<models, cm, model, store, tf_seed, cv, hist, runs, failures, fitlog, overlap>>

NextFit == FitPipeline

SpecFit == InitFit /\ [][NextFit]_vars

\* the fitted transformers the input of step i goes through
Via(steps, i) ==
    LET transforms(st) == st.transform
        before == SelectSeq(SubSeq(steps, 1, i - 1), transforms)
    IN  [j \in DOMAIN before |-> before[j].fit]

\* C20: after _fit of a Pipeline, a step that reported fitted is as it
\* was, and a step that did not is fitted on the training partition as
\* transformed by the transforming steps before it, in their order and as
\* they are after the fit.
C20_PipelineStagesInOrder ==
    \A r \in probe.out :
        \A i \in DOMAIN probe.o.steps :
            /\ _is_fitted(probe.o.steps[i]) => r.learner.steps[i] = probe.o.steps[i]
            /\ ~_is_fitted(probe.o.steps[i]) =>
                  r.learner.steps[i].fit =
                      {[tr |-> probe.part, rs |-> probe.o.steps[i].random_state,
                        via |-> Via(r.learner.steps, i)]}

C20_Witness ==
    /\ probe.out # {}
    /\ Len(probe.o.steps) = 3
    /\ probe.o.steps[1].transform /\ _is_fitted(probe.o.steps[1])
    /\ probe.o.steps[2].transform /\ ~_is_fitted(probe.o.steps[2])
    /\ ~_is_fitted(probe.o.steps[3])

\* the training set and the validation set of a call that does not split
FullX == [x |-> "x", kfold |-> {}, side |-> "full"]
GivenXVal == [x |-> "x_val", kfold |-> {}, side |-> "full"]

\* C21: in a call with random_data = False, whatever a fold fits it fits
\* on the full x, and every fold is scored on the full x and on the
\* caller's x_val; with random_model = False the learners of all folds
\* have the same random state, the seed.
C21_FixedSplitEveryFold ==
    \A p \in Procs :
        LET f == cv[p]
            l == Learner(p)
        IN  (f.pc \notin {"idle"} /\ ~f.args.random_data) =>
                /\ (f.pc \in {"score", "save"}) =>
                      \A i \in DOMAIN l.steps :
                          l.steps[i].fit # f.before_fit.steps[i].fit =>
                              \A x \in l.steps[i].fit : x.tr = FullX
                /\ Len(f.score.train_cv) = Len(f.score.val_cv)
                /\ \A j \in DOMAIN f.score.train_cv :
                      /\ f.score.train_cv[j].on = FullX
                      /\ f.score.val_cv[j].on = GivenXVal
                /\ ~f.args.random_model =>
                      \A j \in DOMAIN f.fitted_models :
                          Seeded(f.fitted_models[j], f.args.seed)

C21_Witness ==
    /\ cv[1].pc = "returned"
    /\ ~cv[1].args.random_data
    /\ cv[1].args.n_splits = 2
    /\ cv[1].fits >= 2
    /\ Len(cv[1].score.val_cv) = 2

\* C24: every model in fitted_models has is_fitted True if its fold's
\* lookup hit and False if it missed, also though the fold fitted it.
C24_IsFittedMarksHit ==
    \A p \in Procs :
        LET f == cv[p]
        IN  /\ Len(f.fitted_models) <= Len(f.hits)
            /\ \A j \in DOMAIN f.fitted_models :
                  f.fitted_models[j].is_fitted = {f.hits[j]}

C24_Witness ==
    /\ cv[1].pc = "returned"
    /\ Len(cv[1].fitted_models) = 2
    /\ ~cv[1].hits[1]
    /\ cv[1].hits[2]
    /\ cv[1].fits > 0
    /\ \A i \in DOMAIN cv[1].fitted_models[1].steps :
          cv[1].fitted_models[1].steps[i].fit # {}

\* ------------------------------------------------ claims on compare_models
\* C11: a fold whose fit raised ends its cross_validation call: the call
\* has failed, it holds a score and a fitted model for the folds before
\* that fold only, and the compare_models call it belongs to has no report
\* rows, has written no CSV and does not return.
C11_FitFailurePropagates ==
    LET f == cv[1]
    IN  f.fit_failed =>
            /\ f.pc = "failed"
            /\ Len(f.score.train_cv) = f.split_index
            /\ Len(f.score.val_cv) = f.split_index
            /\ Len(f.fitted_models) = f.split_index
            /\ cm.pc \in {"cv", "failed"}
            /\ cm.report = <<>>
            /\ cm.csv = {}

C11_Witness ==
    /\ cv[1].fit_failed
    /\ cv[1].split_index = 1
    /\ cm.pc = "failed"
    /\ cm.index = 2
    /\ Len(cm.val_cv) = 1

\* C12: every row of a returned report names, in its test column, the test
\* that find_best_solution applied to the validation scores to produce the
\* p-values, which is the test the caller passed.
C12_ReportedTestIsApplied ==
    cm.pc = "returned" =>
        \A b \in cm.selection :
            /\ b.test = cm.args.test
            /\ \A i \in DOMAIN cm.report : cm.report[i].test = b.test

\* C14: a returned report has one row for each model of the list, and row
\* i has the signature of models[i], the train and validation scores that
\* the cross_validation of models[i] returned and the i-th p-value.
C14_OneRowPerModelInOrder ==
    cm.pc = "returned" =>
        /\ Len(cm.report) = Len(models)
        /\ Len(cm.results) = Len(models)
        /\ \A i \in DOMAIN cm.report :
              LET r == cm.results[i]
              IN  /\ Structure(r.model0) = Structure(models[i])
                  /\ cm.report[i].model = models[i].signature
                  /\ cm.report[i].model = r.fitted_models[Len(r.fitted_models)].signature
                  /\ cm.report[i].train_cv = r.score.train_cv
                  /\ cm.report[i].val_cv = r.score.val_cv
                  /\ \A b \in cm.selection : cm.report[i].pvalue = b.pvalues[i]

C14_Witness ==
    /\ cm.pc = "returned"
    /\ Len(cm.report) = 2
    /\ Structure(models[1]) # Structure(models[2])
    /\ cm.report[1].val_cv # cm.report[2].val_cv
    /\ cm.report[1].pvalue # cm.report[2].pvalue

\* the keys saved so far by the compare_models call in progress
SavedInCall ==
    UNION {UNION {o.signature : o \in Range(cm.results[j].fitted_models)} :
              j \in DOMAIN cm.results}
    \cup UNION {o.signature : o \in Range(cv[1].fitted_models)}

\* C15: in a compare_models call that dropped the store, a fold whose key
\* has not been saved since the drop misses and has every step of its
\* learner fitted on the fold's training partition.
C15_MissAndRefitAfterDrop ==
    LET f == cv[1]
        l == Learner(1)
        k == CacheKey(f.looked, f.split_index, f.args.dataset_id, f.args.dataset_name,
                      f.args.fit_params, f.args.db_name)
    IN  (cm.pc = "cv" /\ cm.dropped # <<>> /\ runs = cm.called + 1 /\ f.pc = "score"
         /\ k \notin SavedInCall) =>
            /\ ~f.hit
            /\ \A i \in DOMAIN l.steps :
                  /\ l.steps[i].fit # {}
                  /\ \A x \in l.steps[i].fit : x.tr = TrainPart(f.args, f.split_index)

\* C16: in a returned report, row i is flagged separable exactly when
\* index i is not in best_solutions; best_solutions holds the indices whose
\* p-value is at least alpha, and the row of the best model is not flagged.
C16_SeparableIffNotInBestSet ==
    cm.pc = "returned" =>
        \A b \in cm.selection :
            /\ \A i \in DOMAIN cm.report :
                  cm.report[i].separable = ((i - 1) \notin b.best_solutions)
            /\ b.best_solutions =
                  {i - 1 : i \in {j \in DOMAIN cm.report : cm.report[j].pvalue >= cm.args.alpha}}
            /\ ~cm.report[b.best_sol + 1].separable

C16_Witness ==
    /\ cm.pc = "returned"
    /\ Len(cm.report) = 2
    /\ cm.report[1].separable
    /\ ~cm.report[2].separable

\* the keys the compare_models call in progress has saved so far
SavedSinceEntry ==
    UNION {UNION {o.signature : o \in Range(cm.results[j].fitted_models)} :
              j \in DOMAIN cm.results}
    \cup (IF runs > cm.runs0
          THEN UNION {o.signature : o \in Range(cv[1].fitted_models)}
          ELSE {})

\* C22: in a compare_models call with no dataset_id or dataset_id 0, what
\* the store "new-db" held at entry is gone and what the call has saved is
\* there, every lookup and save of the call is made with dataset_id 1 on
\* "new-db" whatever db_name the caller gave, and the other stores are as
\* they were; in a call with another dataset_id nothing that was in any
\* store at entry is gone and every lookup and save is made with the
\* caller's dataset_id and db_name.
C22_DropOnlyUnnamedDataset ==
    cm.pc \notin {"idle"} =>
        LET a == cm.args
            unnamed == a.dataset_id \in {{}, {0}}
            db == IF unnamed THEN "new-db" ELSE a.db_name
            did == IF unnamed THEN {1} ELSE a.dataset_id
        IN  /\ \A k \in DOMAIN cm.store0 :
                  (k.db # "new-db" \/ ~unnamed) => k \in DOMAIN store
            /\ unnamed => \A k \in DOMAIN store : k.db = "new-db" => k \in SavedSinceEntry
            /\ SavedSinceEntry \subseteq DOMAIN store
            /\ \A j \in DOMAIN cm.results :
                  /\ cm.results[j].args.db_name = db
                  /\ {cm.results[j].args.dataset_id} = did
            /\ runs > cm.runs0 =>
                  \A j \in DOMAIN cv[1].trace :
                      /\ cv[1].trace[j].db_name = db
                      /\ {cv[1].trace[j].dataset_id} = did

C22_Witness ==
    /\ cm.pc = "cv"
    /\ cm.calls = 2
    /\ cm.args.dataset_id = {0}
    /\ cm.args.db_name = "templates"
    /\ runs > cm.runs0
    /\ cv[1].pc = "lookup"
    /\ cv[1].hits = <<FALSE>>
    /\ SavedSinceEntry # {}
    /\ \E k \in DOMAIN cm.store0 : k.db = "new-db" /\ k \notin DOMAIN store

\* C23: when compare_models has returned, each model of the caller is as
\* it was at entry but for its signature, which is the signature
\* save_model returned for the model's last fold, n_splits - 1, and which
\* the model column of the model's row reports.
C23_OnlySignatureSet ==
    cm.pc = "returned" =>
        /\ Len(models) = Len(cm.models0)
        /\ \A i \in DOMAIN models :
              LET fm == cm.results[i].fitted_models
                  n == cm.args.n_splits
              IN  /\ Len(fm) = n
                  /\ fm[n].signature = {FoldKey(cm.models0[i], CvArgs(cm), n - 1)}
                  /\ models[i] = [cm.models0[i] EXCEPT !.signature = fm[n].signature]
                  /\ cm.report[i].model = fm[n].signature

C23_Witness ==
    /\ cm.pc = "returned"
    /\ cm.calls = 2
    /\ Len(models) = 2
    /\ cm.args.n_splits = 2
    /\ \A i \in DOMAIN models :
          /\ cm.models0[i].signature # {}
          /\ cm.models0[i].signature # models[i].signature

====
